---- MODULE Spec2Model ----
(***************************************************************************)
(* GreenPiThumb: the pump exclusivity locks (pump.py) and the freshness    *)
(* caches in front of the sensors (arduino_sensors.py,                     *)
(* miflora_sensor_fc.py), as state machines.                               *)
(*                                                                         *)
(* Every pump has one polling thread, which calls pump_water on it.  A     *)
(* thread switch can happen between any two bytecodes, so every access to  *)
(* a shared object (the two locks, the UART transmit buffer, the cache     *)
(* fields) is a step of its own; statements that touch only locals are     *)
(* folded into the next shared access.                                     *)
(***************************************************************************)
EXTENDS Integers, Sequences, FiniteSets

\* Number of pumps sharing one pair of locks and one UART (--n_pumps).
NumPumps == 2

\* Pump ids as main() hands them out: range(n_pumps).
Pumps == 0 .. (NumPumps - 1)

\* The value of a lock nobody holds.
NoPump == -1

\* Bytes of the transmit buffer, as character codes: ' ' (the buffer as
\* pySerialTransfer creates it), 'a' (pump on), 'z' (pump off).
BLANK == 32
TAG_ON == 97
TAG_OFF == 122

\* The request byte of a sensor read: 's'.
TAG_SENSORS == 115

\* Amounts handed to pump_water: a negative one, zero, a positive one.
Amounts == {-1, 0, 200}

\* Threads reading through one cache instance (the sensor wrappers' pollers).
NumReaders == 2
Readers == 1 .. NumReaders

\* The value of a cache lock nobody holds.
NoReader == 0

\* self._last_reading = None
NoBundle == 0

\* arduino_sensors._FRESHNESS_THRESHOLD and _REQUEST_TIMEOUT, in seconds.
ARDUINO_FRESHNESS_THRESHOLD == 50
REQUEST_TIMEOUT == 120

\* datetime.datetime.min, in seconds on the clock's scale: further in the past
\* than any threshold (the year 1 is some 6 * 10^10 seconds before the year
\* 2000; the value is cut to TLC's integers).
DATETIME_MIN == -2000000000

\* The clock starts at 0, advances TickSeconds at a time and stops at MaxTime.
TickSeconds == 25
MaxTime == 150

VARIABLES
    pump_exclusivity,      \* Pump._pump_exclusivity, per pump
    exclusive_pump_lock,   \* the shared lock: NoPump or the pump holding it
    someone_pumping_lock,  \* the shared lock: NoPump or the pump holding it
    pc,                    \* where each pump's thread is in pump_water
    amount_ml,             \* argument of the current (or last) call
    gate_locked,           \* what exclusive_pump_lock.locked() gave at line 48
    acquired_lock,         \* the local acquired_lock
    outcome,               \* how the call ended (or will, once finally has run)
    sent,                  \* hardware effects of the current (or last) call
    txBuff,                \* arduino_uart.txBuff[0..1]
    now,                   \* the clock: seconds since the start
    last_reading_time,     \* the cache's _last_reading_time
    last_reading,          \* the cache's _last_reading: a bundle or NoBundle
    cache_lock,            \* the cache's _lock: NoReader or the reader in it
    rpc,                   \* where each reader is in _read_arduino
    branch,                \* which branch of line 44 the current call took
    cached_at_check,       \* _last_reading when the call compared the times
    request_time,          \* the local request_time of _get_current_values
                           \* (0 outside the polling loop)
    phys_reads,            \* physical reads the current call has issued
    phys_result,           \* the bundle the call's physical read returned
    routcome,              \* how the read ended: "returned" or "raised"
    result,                \* the bundle a returned read handed back
    bundles,               \* responses decoded so far (the last bundle's id)
    call_now,              \* the local now of _read_arduino (line 43)
    bundle_time,           \* per bundle: the clock reading of the call whose
                           \* physical read produced it
    requests,              \* the times at which the current physical read
                           \* sent its requests (lines 60 and 69)
    sleep_windows,         \* PumpScheduler._sleep_windows: <<sleep, wake>>s
    local_time,            \* self._local_clock.now().time(), in seconds
    allowed,               \* what is_running_pump_allowed returned last
    mpc,                   \* where the manager's thread is in pump_if_needed
    moisture,              \* argument of the current (or last) call
    timer_remaining,       \* the manager's Timer: time left, 0 when expired
    time_at_call,          \* the local time the scheduler was asked at
    timer_at_call,         \* the Timer when the current call started
    pump_calls,            \* pump_water calls made by the current call
    timer_resets,          \* Timer.reset() calls made by the current call
    moutcome,              \* how the manager's call ended
    mret,                  \* what pump_if_needed returned
    watering_history,      \* the persisted watering events: <<pump, time>>
    startup_now,           \* clock.Clock().now() during startup
    startup_pc,            \* pump_number of main's loop (line 340)
    startup_outcome,       \* "running", or the exception that ended main
    seeded_remaining,      \* per pump: what its Timer was seeded with
    record_queue,          \* RecordProcessor._record_queue (queue.Queue)
    enqueue_log,           \* every record put on the queue, in put order
    insert_log,            \* every store insert so far: <<store, record>>
    cpc,                   \* where the consumer is in try_process_next_record
    record,                \* the local record of the current call
    cret,                  \* how the last call ended
    queue_at_get,          \* the queue as get_nowait of this call found it
    true_returns,          \* calls that have returned True
    main_pc,               \* where main is in lines 371-382
    poller_i,              \* the index of the for loops of lines 372 and 380
    poller_state,          \* per poller: "made", "polling" or "closed"
    uart_open,             \* arduino_uart is open
    main_exc,              \* the exception under way in main, or "none"
    close_log              \* the close calls of lines 381 and 382, in order

pumpVars == <<pump_exclusivity, exclusive_pump_lock, someone_pumping_lock, pc,
              amount_ml, gate_locked, acquired_lock, outcome, sent, txBuff>>

cacheVars == <<now, last_reading_time, last_reading, cache_lock, rpc, branch,
               cached_at_check, request_time, phys_reads, phys_result,
               routcome, result, bundles, call_now, bundle_time, requests>>

schedVars == <<sleep_windows, local_time, allowed>>
mgrVars == <<mpc, moisture, timer_remaining, time_at_call, timer_at_call,
             pump_calls, timer_resets, moutcome, mret>>
startupVars == <<watering_history, startup_now, startup_pc, startup_outcome,
                 seeded_remaining>>
procVars == <<record_queue, enqueue_log, insert_log, cpc, record, cret,
              queue_at_get, true_returns>>
loopVars == <<main_pc, poller_i, poller_state, uart_open, main_exc,
              close_log>>
mainVars == <<procVars, loopVars>>
managerVars == <<schedVars, mgrVars, startupVars, mainVars>>

vars == <<pumpVars, cacheVars, managerVars>>

\* Ways a call can end.  "False", "None", "True" are returned values; the
\* others are exceptions leaving pump_water.
Returned == {"False", "None", "True"}
Raised == {"ValueError", "SendOnError", "WaitError", "SendOffError"}

----------------------------------------------------------------------------
(* Pump.pump_water                                                         *)

\* threading.Lock.locked()
Locked(lock) == lock # NoPump

\* Line 48: the call is skipped when the exclusivity lock is locked.
SkipIgnoresExclusiveLock(locked) == FALSE
SkipAtExclusiveGate(locked) == locked

\* Lines 47-50 (and the branch of line 51): the gate on the exclusivity lock.
Call(p, amt) ==
    /\ pc[p] = "idle"
    /\ amount_ml' = [amount_ml EXCEPT ![p] = amt]
    /\ acquired_lock' = [acquired_lock EXCEPT ![p] = FALSE]
    /\ sent' = [sent EXCEPT ![p] = <<>>]
    /\ gate_locked' = [gate_locked EXCEPT ![p] = Locked(exclusive_pump_lock)]
    /\ IF SkipAtExclusiveGate(Locked(exclusive_pump_lock))
          THEN /\ outcome' = [outcome EXCEPT ![p] = "False"]
               /\ pc' = pc
          ELSE /\ outcome' = [outcome EXCEPT ![p] = "running"]
               /\ pc' = [pc EXCEPT ![p] =
                            IF pump_exclusivity[p] THEN "l52" ELSE "l57"]
    /\ UNCHANGED <<pump_exclusivity, exclusive_pump_lock,
                   someone_pumping_lock, txBuff>>
    /\ UNCHANGED cacheVars

\* Lines 52-54: an exclusive pump is skipped when someone else is pumping.
CheckSomeonePumping(p) ==
    /\ pc[p] = "l52"
    /\ IF Locked(someone_pumping_lock)
          THEN /\ outcome' = [outcome EXCEPT ![p] = "False"]
               /\ pc' = [pc EXCEPT ![p] = "idle"]
          ELSE /\ outcome' = outcome
               /\ pc' = [pc EXCEPT ![p] = "l55"]
    /\ UNCHANGED <<pump_exclusivity, exclusive_pump_lock,
                   someone_pumping_lock, amount_ml, gate_locked,
                   acquired_lock, sent, txBuff>>
    /\ UNCHANGED <<cacheVars, managerVars>>

\* threading.Lock.acquire(): blocks until the lock is free.
AcquireWithoutWaiting(lock) == TRUE
CanAcquire(lock) == ~Locked(lock)

\* Line 55: self._exclusive_pump_lock.acquire()
AcquireExclusive(p) ==
    /\ pc[p] = "l55"
    /\ CanAcquire(exclusive_pump_lock)
    /\ exclusive_pump_lock' = p
    /\ pc' = [pc EXCEPT ![p] = "l59"]
    /\ UNCHANGED <<pump_exclusivity, someone_pumping_lock, amount_ml,
                   gate_locked, acquired_lock, outcome, sent, txBuff>>
    /\ UNCHANGED <<cacheVars, managerVars>>

\* Line 57: acquired_lock = self._someone_pumping_lock.acquire(blocking=False)
TryAcquireSomeone(p) ==
    /\ pc[p] = "l57"
    /\ acquired_lock' = [acquired_lock EXCEPT
                            ![p] = ~Locked(someone_pumping_lock)]
    /\ someone_pumping_lock' =
          IF Locked(someone_pumping_lock) THEN someone_pumping_lock ELSE p
    /\ pc' = [pc EXCEPT ![p] = "l59"]
    /\ UNCHANGED <<pump_exclusivity, exclusive_pump_lock, amount_ml,
                   gate_locked, outcome, sent, txBuff>>
    /\ UNCHANGED <<cacheVars, managerVars>>

\* Line 60: the value of a bare `return`.
ZeroReturnsTrue == "True"
ZeroAmountReturn == "None"

\* Lines 59-65: the branch on the amount; a positive amount goes on to write
\* the first byte of the "on" command.
CheckAmount(p) ==
    /\ pc[p] = "l59"
    /\ IF amount_ml[p] = 0
          THEN /\ outcome' = [outcome EXCEPT ![p] = ZeroAmountReturn]
               /\ pc' = [pc EXCEPT ![p] = "finally"]
               /\ txBuff' = txBuff
          ELSE IF amount_ml[p] < 0
          THEN /\ outcome' = [outcome EXCEPT ![p] = "ValueError"]
               /\ pc' = [pc EXCEPT ![p] = "finally"]
               /\ txBuff' = txBuff
          ELSE /\ outcome' = outcome
               /\ txBuff' = [txBuff EXCEPT ![0] = TAG_ON]
               /\ pc' = [pc EXCEPT ![p] = "l66"]
    /\ UNCHANGED <<pump_exclusivity, exclusive_pump_lock,
                   someone_pumping_lock, amount_ml, gate_locked,
                   acquired_lock, sent>>
    /\ UNCHANGED <<cacheVars, managerVars>>

\* Lines 66 and 74: txBuff[1] = self._pump_id
WritePumpId(p) ==
    /\ pc[p] \in {"l66", "l74"}
    /\ txBuff' = [txBuff EXCEPT ![1] = p]
    /\ pc' = [pc EXCEPT ![p] = IF pc[p] = "l66" THEN "l67" ELSE "l75"]
    /\ UNCHANGED <<pump_exclusivity, exclusive_pump_lock,
                   someone_pumping_lock, amount_ml, gate_locked,
                   acquired_lock, outcome, sent>>
    /\ UNCHANGED <<cacheVars, managerVars>>

\* Line 67: send(2) of the "on" command; pySerialTransfer may raise.
SendOn(p) ==
    /\ pc[p] = "l67"
    /\ \/ /\ sent' = [sent EXCEPT ![p] = Append(@, "on")]
          /\ pc' = [pc EXCEPT ![p] = "l69"]
          /\ outcome' = outcome
       \/ /\ outcome' = [outcome EXCEPT ![p] = "SendOnError"]
          /\ pc' = [pc EXCEPT ![p] = "finally"]
          /\ sent' = sent
    /\ UNCHANGED <<pump_exclusivity, exclusive_pump_lock,
                   someone_pumping_lock, amount_ml, gate_locked,
                   acquired_lock, txBuff>>
    /\ UNCHANGED <<cacheVars, managerVars>>

\* Lines 69-70: the timed wait; the division or the wait may raise.
Wait(p) ==
    /\ pc[p] = "l69"
    /\ \/ /\ sent' = [sent EXCEPT ![p] = Append(@, "wait")]
          /\ pc' = [pc EXCEPT ![p] = "l73"]
          /\ outcome' = outcome
       \/ /\ outcome' = [outcome EXCEPT ![p] = "WaitError"]
          /\ pc' = [pc EXCEPT ![p] = "finally"]
          /\ sent' = sent
    /\ UNCHANGED <<pump_exclusivity, exclusive_pump_lock,
                   someone_pumping_lock, amount_ml, gate_locked,
                   acquired_lock, txBuff>>
    /\ UNCHANGED <<cacheVars, managerVars>>

\* Line 73: txBuff[0] = 'z'
WriteOffTag(p) ==
    /\ pc[p] = "l73"
    /\ txBuff' = [txBuff EXCEPT ![0] = TAG_OFF]
    /\ pc' = [pc EXCEPT ![p] = "l74"]
    /\ UNCHANGED <<pump_exclusivity, exclusive_pump_lock,
                   someone_pumping_lock, amount_ml, gate_locked,
                   acquired_lock, outcome, sent>>
    /\ UNCHANGED <<cacheVars, managerVars>>

\* Lines 75-76: send(2) of the "off" command, the end of the try block.
SendOff(p) ==
    /\ pc[p] = "l75"
    /\ \/ /\ sent' = [sent EXCEPT ![p] = Append(@, "off")]
          /\ outcome' = [outcome EXCEPT ![p] = "True"]
       \/ /\ outcome' = [outcome EXCEPT ![p] = "SendOffError"]
          /\ sent' = sent
    /\ pc' = [pc EXCEPT ![p] = "finally"]
    /\ UNCHANGED <<pump_exclusivity, exclusive_pump_lock,
                   someone_pumping_lock, amount_ml, gate_locked,
                   acquired_lock, txBuff>>
    /\ UNCHANGED <<cacheVars, managerVars>>

\* Lines 78-82: which of the two locks the finally clause releases.
ReleasesOnlyOnSuccess(p, lock) ==
    /\ outcome[p] = "True"
    /\ IF pump_exclusivity[p] THEN lock = "exclusive"
                              ELSE lock = "someone" /\ acquired_lock[p]
Releases(p, lock) ==
    IF pump_exclusivity[p] THEN lock = "exclusive"
                           ELSE lock = "someone" /\ acquired_lock[p]

\* Lines 77-84: the finally clause, then the return or the re-raise.
Finally(p) ==
    /\ pc[p] = "finally"
    /\ exclusive_pump_lock' =
          IF Releases(p, "exclusive") THEN NoPump ELSE exclusive_pump_lock
    /\ someone_pumping_lock' =
          IF Releases(p, "someone") THEN NoPump ELSE someone_pumping_lock
    /\ pc' = [pc EXCEPT ![p] = "idle"]
    /\ UNCHANGED <<pump_exclusivity, amount_ml, gate_locked, acquired_lock,
                   outcome, sent, txBuff>>
    /\ UNCHANGED <<cacheVars, managerVars>>

----------------------------------------------------------------------------
(* CachingArduinoSensors                                                   *)

\* A reader's per-call bookkeeping, reset when it calls _read_arduino.
ReadCall(c) ==
    /\ rpc[c] = "idle"
    /\ rpc' = [rpc EXCEPT ![c] = "l42"]
    /\ branch' = [branch EXCEPT ![c] = "none"]
    /\ cached_at_check' = [cached_at_check EXCEPT ![c] = NoBundle]
    /\ phys_reads' = [phys_reads EXCEPT ![c] = 0]
    /\ phys_result' = [phys_result EXCEPT ![c] = NoBundle]
    /\ routcome' = [routcome EXCEPT ![c] = "running"]
    /\ result' = [result EXCEPT ![c] = NoBundle]
    /\ call_now' = [call_now EXCEPT ![c] = 0]
    /\ UNCHANGED <<now, last_reading_time, last_reading, cache_lock,
                   request_time, bundles, bundle_time, requests>>
    /\ UNCHANGED <<pumpVars, managerVars>>

\* Line 44: (now - self._last_reading_time).total_seconds() >= threshold
StaleAfterThreshold(t, last, threshold) == t - last > threshold
Stale(t, last, threshold) == t - last >= threshold

\* Line 42: with self._lock waits until the lock is free.
LockNeverWaits(lock) == TRUE
LockFree(lock) == lock = NoReader

\* Lines 42-46 and 50-52: enter the lock, read the clock, compare, and on a
\* stale cache store the new reading time.
EnterRead(c, threshold) ==
    /\ rpc[c] = "l42"
    /\ LockFree(cache_lock)
    /\ cache_lock' = c
    /\ call_now' = [call_now EXCEPT ![c] = now]
    /\ cached_at_check' = [cached_at_check EXCEPT ![c] = last_reading]
    /\ IF Stale(now, last_reading_time, threshold)
          THEN /\ last_reading_time' = now
               /\ branch' = [branch EXCEPT ![c] = "stale"]
               /\ phys_reads' = [phys_reads EXCEPT ![c] = @ + 1]
               /\ rpc' = [rpc EXCEPT ![c] = "l59"]
          ELSE /\ last_reading_time' = last_reading_time
               /\ branch' = [branch EXCEPT ![c] = "fresh"]
               /\ phys_reads' = phys_reads
               /\ rpc' = [rpc EXCEPT ![c] = "exit"]
    /\ UNCHANGED <<now, last_reading, request_time, phys_result, routcome,
                   result, bundles, bundle_time, requests>>
    /\ UNCHANGED <<pumpVars, managerVars>>

\* Lines 59 and 68: txBuff[0] = 's'
WriteRequestTag(c) ==
    /\ rpc[c] \in {"l59", "l68"}
    /\ txBuff' = [txBuff EXCEPT ![0] = TAG_SENSORS]
    /\ rpc' = [rpc EXCEPT ![c] = IF rpc[c] = "l59" THEN "l60" ELSE "l69"]
    /\ UNCHANGED <<pump_exclusivity, exclusive_pump_lock,
                   someone_pumping_lock, pc, amount_ml, gate_locked,
                   acquired_lock, outcome, sent>>
    /\ UNCHANGED <<now, last_reading_time, last_reading, cache_lock, branch,
                   cached_at_check, request_time, phys_reads, phys_result,
                   routcome, result, bundles, call_now, bundle_time, requests>>
    /\ UNCHANGED managerVars

\* Lines 61 and 70: request_time = self._clock.now(), after the first request
\* and after every request sent again.
RequestTimeOfFirstRequest(c) ==
    IF rpc[c] = "l69" THEN request_time[c] ELSE now
RequestTime(c) == now

\* Lines 60-61 and 69-70: send(1), which may raise, then
\* request_time = self._clock.now().  The locals of the physical read are
\* gone once it has ended.
SendRequest(c) ==
    /\ rpc[c] \in {"l60", "l69"}
    /\ \/ /\ request_time' = [request_time EXCEPT ![c] = RequestTime(c)]
          /\ requests' = [requests EXCEPT ![c] = Append(@, now)]
          /\ rpc' = [rpc EXCEPT ![c] = "l62"]
          /\ routcome' = routcome
       \/ /\ routcome' = [routcome EXCEPT ![c] = "raised"]
          /\ rpc' = [rpc EXCEPT ![c] = "exit"]
          /\ request_time' = [request_time EXCEPT ![c] = 0]
          /\ requests' = [requests EXCEPT ![c] = <<>>]
    /\ UNCHANGED <<now, last_reading_time, last_reading, cache_lock, branch,
                   cached_at_check, phys_reads, phys_result, result, bundles,
                   call_now, bundle_time>>
    /\ UNCHANGED <<pumpVars, managerVars>>

\* Line 65: (self._clock.now() - request_time).total_seconds() >= timeout
TimedOut(t, requested) == t - requested >= REQUEST_TIMEOUT

\* Lines 62-70: one round of the polling loop that finds no response: after
\* the timeout the request is issued again.  (A round before the timeout
\* changes nothing.)
PollTimeout(c) ==
    /\ rpc[c] = "l62"
    /\ TimedOut(now, request_time[c])
    /\ rpc' = [rpc EXCEPT ![c] = "l68"]
    /\ UNCHANGED <<now, last_reading_time, last_reading, cache_lock, branch,
                   cached_at_check, request_time, phys_reads, phys_result,
                   routcome, result, bundles, call_now, bundle_time, requests>>
    /\ UNCHANGED <<pumpVars, managerVars>>

\* Lines 62, 71-77 and 47: a response is available; it is decoded into a new
\* bundle, which _read_arduino stores in _last_reading.  struct.unpack may
\* raise on a malformed receive buffer.
Respond(c) ==
    /\ rpc[c] = "l62"
    /\ \/ /\ bundles' = bundles + 1
          /\ bundle_time' = Append(bundle_time, call_now[c])
          /\ phys_result' = [phys_result EXCEPT ![c] = bundles + 1]
          /\ last_reading' = bundles + 1
          /\ routcome' = routcome
       \/ /\ routcome' = [routcome EXCEPT ![c] = "raised"]
          /\ UNCHANGED <<bundles, bundle_time, phys_result, last_reading>>
    /\ rpc' = [rpc EXCEPT ![c] = "exit"]
    /\ request_time' = [request_time EXCEPT ![c] = 0]
    /\ requests' = [requests EXCEPT ![c] = <<>>]
    /\ UNCHANGED <<now, last_reading_time, cache_lock, branch,
                   cached_at_check, phys_reads, result, call_now>>
    /\ UNCHANGED <<pumpVars, managerVars>>

\* The end of the with block (line 52 or 48, or an exception passing through
\* it): the lock is released; an exception then leaves _read_arduino.
ExitWith(c) ==
    /\ rpc[c] = "exit"
    /\ cache_lock' = NoReader
    /\ rpc' = [rpc EXCEPT ![c] =
                  IF routcome[c] = "raised" THEN "idle" ELSE "l54"]
    /\ UNCHANGED <<now, last_reading_time, last_reading, branch,
                   cached_at_check, request_time, phys_reads, phys_result,
                   routcome, result, bundles, call_now, bundle_time, requests>>
    /\ UNCHANGED <<pumpVars, managerVars>>

\* Line 54: return self._last_reading, read after the lock is released.
ReturnLastReading(c) ==
    /\ rpc[c] = "l54"
    /\ result' = [result EXCEPT ![c] = last_reading]
    /\ routcome' = [routcome EXCEPT ![c] = "returned"]
    /\ rpc' = [rpc EXCEPT ![c] = "idle"]
    /\ UNCHANGED <<now, last_reading_time, last_reading, cache_lock, branch,
                   cached_at_check, request_time, phys_reads, phys_result,
                   bundles, call_now, bundle_time, requests>>
    /\ UNCHANGED <<pumpVars, managerVars>>

\* The clock advances, up to limit.
TickTo(limit) ==
    /\ now + TickSeconds <= limit
    /\ now' = now + TickSeconds
    /\ UNCHANGED <<last_reading_time, last_reading, cache_lock, rpc, branch,
                   cached_at_check, request_time, phys_reads, phys_result,
                   routcome, result, bundles, call_now, bundle_time, requests>>
    /\ UNCHANGED <<pumpVars, managerVars>>

Tick == TickTo(MaxTime)

CacheInit ==
    /\ now = 0
    /\ last_reading_time = DATETIME_MIN
    /\ last_reading = NoBundle
    /\ cache_lock = NoReader
    /\ rpc = [c \in Readers |-> "idle"]
    /\ branch = [c \in Readers |-> "none"]
    /\ cached_at_check = [c \in Readers |-> NoBundle]
    /\ request_time = [c \in Readers |-> 0]
    /\ phys_reads = [c \in Readers |-> 0]
    /\ phys_result = [c \in Readers |-> NoBundle]
    /\ routcome = [c \in Readers |-> "none"]
    /\ result = [c \in Readers |-> NoBundle]
    /\ bundles = 0
    /\ call_now = [c \in Readers |-> 0]
    /\ bundle_time = <<>>
    /\ requests = [c \in Readers |-> <<>>]

ArduinoNext ==
    \/ \E c \in Readers :
          \/ ReadCall(c)
          \/ EnterRead(c, ARDUINO_FRESHNESS_THRESHOLD)
          \/ WriteRequestTag(c)
          \/ SendRequest(c)
          \/ PollTimeout(c)
          \/ Respond(c)
          \/ ExitWith(c)
          \/ ReturnLastReading(c)
    \/ Tick

PumpInit ==
    /\ pump_exclusivity \in [Pumps -> BOOLEAN]
    /\ exclusive_pump_lock = NoPump
    /\ someone_pumping_lock = NoPump
    /\ pc = [p \in Pumps |-> "idle"]
    /\ amount_ml = [p \in Pumps |-> 0]
    /\ gate_locked = [p \in Pumps |-> FALSE]
    /\ acquired_lock = [p \in Pumps |-> FALSE]
    /\ outcome = [p \in Pumps |-> "none"]
    /\ sent = [p \in Pumps |-> <<>>]
    /\ txBuff = [i \in 0..1 |-> BLANK]

\* pump_water called by a caller other than a pump manager.
PumpWater(p, amt) == Call(p, amt) /\ UNCHANGED managerVars

PumpNext ==
    \E p \in Pumps :
        \/ \E amt \in Amounts : PumpWater(p, amt)
        \/ CheckSomeonePumping(p)
        \/ AcquireExclusive(p)
        \/ TryAcquireSomeone(p)
        \/ CheckAmount(p)
        \/ WritePumpId(p)
        \/ SendOn(p)
        \/ Wait(p)
        \/ WriteOffTag(p)
        \/ SendOff(p)
        \/ Finally(p)

\* No record: the local record before get_nowait has returned one.
NoRecord == <<>>

\* The record processor before its first call, on an empty queue.
ProcessorAtRest ==
    /\ record_queue = <<>>
    /\ enqueue_log = <<>>
    /\ insert_log = <<>>
    /\ cpc = "idle"
    /\ record = NoRecord
    /\ cret = "none"
    /\ queue_at_get = <<>>
    /\ true_returns = 0

\* The pollers make_sensor_pollers returns.
NumPollers == 2
Pollers == 1 .. NumPollers

\* main at line 371: the channel was opened at line 317, the pollers are
\* made and none is started.
LoopAtRest ==
    /\ main_pc = "l372"
    /\ poller_i = 1
    /\ poller_state = [i \in Pollers |-> "made"]
    /\ uart_open = TRUE
    /\ main_exc = "none"
    /\ close_log = <<>>

\* main's processing loop is not looked at.
MainAtRest == ProcessorAtRest /\ LoopAtRest

\* A Timer that was never seeded.
NotSeeded == -1

\* main's startup is not looked at.
StartupAtRest ==
    /\ watering_history = {}
    /\ startup_now = 0
    /\ startup_pc = 0
    /\ startup_outcome = "running"
    /\ seeded_remaining = [p \in Pumps |-> NotSeeded]

\* No value returned (yet).
NoReturn == -1

\* The manager's thread before its first pump_if_needed call.
ManagerAtRest ==
    /\ mpc = "idle"
    /\ moisture = 0
    /\ time_at_call = 0
    /\ timer_at_call = 0
    /\ pump_calls = 0
    /\ timer_resets = 0
    /\ moutcome = "none"
    /\ mret = NoReturn

----------------------------------------------------------------------------
(* PumpScheduler                                                           *)

\* Times of day, in seconds since midnight (datetime.time objects compare as
\* these do): 00:00, 00:15, 00:30, 03:14:59, 03:15, 03:44:59, 03:45, 12:00,
\* 23:30, 23:45, 23:59:59.
TimesOfDay ==
    {0, 900, 1800, 11699, 11700, 13499, 13500, 43200, 84600, 85500, 86399}

\* Times at which a sleep window starts or ends: 00:30, 03:15, 03:45, 23:30.
WindowTimes == {1800, 11700, 13500, 84600}

\* The scheduler is given up to MaxWindows sleep windows.
MaxWindows == 2
WindowLists ==
    UNION {[1 .. n -> WindowTimes \X WindowTimes] : n \in 0 .. MaxWindows}

\* Line 159: the sleep window wraps midnight.
Wraps(sleep_time, wake_time) == wake_time < sleep_time

\* Line 160: inside a window that wraps midnight.
InWrappingWindowBothSides(current_time, sleep_time, wake_time) ==
    current_time >= sleep_time /\ current_time < wake_time
InWrappingWindow(current_time, sleep_time, wake_time) ==
    current_time >= sleep_time \/ current_time < wake_time

\* Line 163: inside a window that does not wrap.
InWindowEndInclusive(current_time, sleep_time, wake_time) ==
    sleep_time <= current_time /\ current_time <= wake_time
InWindow(current_time, sleep_time, wake_time) ==
    sleep_time <= current_time /\ current_time < wake_time

\* Lines 157-166: the loop over the sleep windows, from window i on.
RECURSIVE AllowedFrom(_, _, _)
AllowedFrom(windows, i, current_time) ==
    IF i > Len(windows)
       THEN TRUE
       ELSE LET sleep_time == windows[i][1]
                wake_time == windows[i][2]
            IN  IF Wraps(sleep_time, wake_time)
                   THEN IF InWrappingWindow(current_time, sleep_time,
                                            wake_time)
                           THEN FALSE
                           ELSE AllowedFrom(windows, i + 1, current_time)
                   ELSE IF InWindow(current_time, sleep_time, wake_time)
                           THEN FALSE
                           ELSE AllowedFrom(windows, i + 1, current_time)

\* Lines 155-166: is_running_pump_allowed on the scheduler's windows at the
\* local clock's time.
is_running_pump_allowed_first_window ==
    AllowedFrom(IF sleep_windows = <<>> THEN <<>>
                                        ELSE <<Head(sleep_windows)>>,
                1, local_time)
is_running_pump_allowed == AllowedFrom(sleep_windows, 1, local_time)

\* A call of is_running_pump_allowed.
IsRunningPumpAllowed ==
    /\ allowed' = IF is_running_pump_allowed THEN "True" ELSE "False"
    /\ UNCHANGED <<sleep_windows, local_time>>
    /\ UNCHANGED <<pumpVars, cacheVars, mgrVars, startupVars, mainVars>>

\* The local clock shows another time of day; what an earlier call returned
\* is no longer looked at.
LocalClockMoves(t) ==
    /\ t # local_time
    /\ local_time' = t
    /\ allowed' = "none"
    /\ UNCHANGED sleep_windows
    /\ UNCHANGED <<pumpVars, cacheVars, mgrVars, startupVars, mainVars>>

SchedulerInit ==
    /\ PumpInit
    /\ pump_exclusivity = [p \in Pumps |-> FALSE]
    /\ CacheInit
    /\ sleep_windows \in WindowLists
    /\ local_time \in TimesOfDay
    /\ allowed = "none"
    /\ ManagerAtRest
    /\ timer_remaining = 0
    /\ StartupAtRest
    /\ MainAtRest

SchedulerNext ==
    \/ IsRunningPumpAllowed
    \/ \E t \in TimesOfDay : LocalClockMoves(t)

SpecScheduler == SchedulerInit /\ [][SchedulerNext]_vars

----------------------------------------------------------------------------
(* PumpManager                                                             *)

\* The pump the manager runs, and a pump that another caller runs at the same
\* time (it contends for the two locks).
ManagedPump == 0
Contender == 1

\* The manager's configuration: moisture_threshold, pump_amount (mL), and
\* the Timer's full interval.
MoistureThreshold == 300
PumpAmount == 200
PumpInterval == 2

\* Moisture readings: below, at and above the threshold.
Moistures == {250, 300, 350}

\* The local times and sleep windows the manager is run with: 00:15 and 12:00,
\* and the window (23:30, 00:30).
ManagerTimes == {900, 43200}
ManagerWindowLists == {<< <<84600, 1800>> >>}

\* clock.Timer: expired(), reset().
TimerExpired(remaining) == remaining = 0
TimerReset == PumpInterval

\* Line 132: moisture < self._moisture_threshold
MoistureLowOrEqual(m) == m <= MoistureThreshold
MoistureLow(m) == m < MoistureThreshold

\* Lines 128-132: _should_pump
should_pump(m) ==
    IF ~is_running_pump_allowed
       THEN FALSE
       ELSE MoistureLow(m) \/ TimerExpired(timer_remaining)

\* Lines 119 and 126: pump_if_needed decides; when it should not pump it
\* returns 0.
PumpIfNeeded(m) ==
    /\ mpc = "idle"
    /\ moisture' = m
    /\ time_at_call' = local_time
    /\ timer_at_call' = timer_remaining
    /\ pump_calls' = 0
    /\ timer_resets' = 0
    /\ IF should_pump(m)
          THEN /\ mpc' = "l120"
               /\ moutcome' = "running"
               /\ mret' = NoReturn
          ELSE /\ mpc' = "idle"
               /\ moutcome' = "returned"
               /\ mret' = 0
    /\ UNCHANGED timer_remaining
    /\ UNCHANGED <<pumpVars, cacheVars, schedVars, startupVars, mainVars>>

\* Line 120: self._pump.pump_water(self._pump_amount) is called; its first
\* step is the gate of pump_water.
CallPumpWater ==
    /\ mpc = "l120"
    /\ Call(ManagedPump, PumpAmount)
    /\ mpc' = "l121"
    /\ pump_calls' = pump_calls + 1
    /\ UNCHANGED <<moisture, timer_remaining, time_at_call, timer_at_call,
                   timer_resets, moutcome, mret>>
    /\ UNCHANGED <<schedVars, startupVars, mainVars>>

\* Line 121: if success
SuccessAlways(ret) == TRUE
Success(ret) == ret = "True"

\* Line 124: the value returned once pump_water has returned.
ReturnedAfterPumpWater(ret) == PumpAmount

\* Lines 120-124: pump_water has ended.  An exception passes through
\* pump_if_needed; otherwise the Timer is reset on success and the amount is
\* returned.
AfterPumpWater ==
    /\ mpc = "l121"
    /\ pc[ManagedPump] = "idle"
    /\ mpc' = "idle"
    /\ IF outcome[ManagedPump] \in Raised
          THEN /\ moutcome' = "raised"
               /\ UNCHANGED <<timer_remaining, timer_resets, mret>>
          ELSE /\ moutcome' = "returned"
               /\ mret' = ReturnedAfterPumpWater(outcome[ManagedPump])
               /\ IF Success(outcome[ManagedPump])
                     THEN /\ timer_remaining' = TimerReset
                          /\ timer_resets' = timer_resets + 1
                     ELSE UNCHANGED <<timer_remaining, timer_resets>>
    /\ UNCHANGED <<moisture, time_at_call, timer_at_call, pump_calls>>
    /\ UNCHANGED <<pumpVars, cacheVars, schedVars, startupVars, mainVars>>

\* clock.Timer: time passes and the Timer counts down.
TimerCountsDown ==
    /\ timer_remaining > 0
    /\ timer_remaining' = timer_remaining - 1
    /\ UNCHANGED <<mpc, moisture, time_at_call, timer_at_call, pump_calls,
                   timer_resets, moutcome, mret>>
    /\ UNCHANGED <<pumpVars, cacheVars, schedVars, startupVars, mainVars>>

\* The steps of pump_water after its gate.
PumpSteps(p) ==
    \/ CheckSomeonePumping(p)
    \/ AcquireExclusive(p)
    \/ TryAcquireSomeone(p)
    \/ CheckAmount(p)
    \/ WritePumpId(p)
    \/ SendOn(p)
    \/ Wait(p)
    \/ WriteOffTag(p)
    \/ SendOff(p)
    \/ Finally(p)

ManagerInit ==
    /\ PumpInit
    /\ CacheInit
    /\ sleep_windows \in ManagerWindowLists
    /\ local_time \in ManagerTimes
    /\ allowed = "none"
    /\ ManagerAtRest
    /\ timer_remaining \in 0 .. PumpInterval
    /\ StartupAtRest
    /\ MainAtRest

ManagerNext ==
    \/ \E m \in Moistures : PumpIfNeeded(m)
    \/ CallPumpWater
    \/ AfterPumpWater
    \/ TimerCountsDown
    \/ \E t \in ManagerTimes : LocalClockMoves(t)
    \/ \E p \in {ManagedPump, Contender} : PumpSteps(p)
    \/ PumpWater(Contender, PumpAmount)

SpecManager == ManagerInit /\ [][ManagerNext]_vars

----------------------------------------------------------------------------
(* make_pump_manager and pump_history.last_pump_time                       *)

\* Pump.__init__ takes 8 arguments besides self; make_pump_manager passes 5.
PumpInitParams == 8
PumpInitArgs == 5

\* last_pump_time takes 1 argument; make_pump_manager passes 2.
LastPumpTimeParams == 1
LastPumpTimeArgs == 2

\* Timestamps of persisted watering events and clock readings at startup, in
\* the Timer's unit; last_pump_time returns None when there is no event.
Timestamps == {1, 2, 3}
StartupNows == {3, 4, 5}
None == 0

Max(a, b) == IF a >= b THEN a ELSE b

\* pump_history.last_pump_time: the latest timestamp of the store's events,
\* whatever their pump.
last_pump_time(history) ==
    IF history = {}
       THEN None
       ELSE CHOOSE t \in {e[2] : e \in history} :
               \A e \in history : e[2] <= t

\* Lines 194-201: the time the Timer is seeded with.
time_remaining(last, interval, t) ==
    IF last # None THEN Max(0, (last + interval) - t) ELSE 0

\* Lines 340-352 and 184-205: main makes the manager of pump p.  A call with
\* the wrong number of arguments raises TypeError, which ends main.
MakePumpManager(p) ==
    /\ startup_outcome = "running"
    /\ startup_pc = p
    /\ IF PumpInitArgs # PumpInitParams
             \/ LastPumpTimeArgs # LastPumpTimeParams
          THEN /\ startup_outcome' = "TypeError"
               /\ UNCHANGED <<startup_pc, seeded_remaining>>
          ELSE /\ seeded_remaining' =
                     [seeded_remaining EXCEPT ![p] =
                         time_remaining(last_pump_time(watering_history),
                                        PumpInterval, startup_now)]
               /\ startup_pc' = p + 1
               /\ UNCHANGED startup_outcome
    /\ UNCHANGED <<watering_history, startup_now>>
    /\ UNCHANGED <<pumpVars, cacheVars, schedVars, mgrVars, mainVars>>

StartupInit ==
    /\ PumpInit
    /\ pump_exclusivity = [p \in Pumps |-> FALSE]
    /\ CacheInit
    /\ sleep_windows = <<>>
    /\ local_time = 0
    /\ allowed = "none"
    /\ ManagerAtRest
    /\ timer_remaining = 0
    /\ watering_history \in SUBSET (Pumps \X Timestamps)
    /\ startup_now \in StartupNows
    /\ startup_pc = 0
    /\ startup_outcome = "running"
    /\ seeded_remaining = [p \in Pumps |-> NotSeeded]
    /\ MainAtRest

StartupNext == \E p \in Pumps : MakePumpManager(p)

SpecStartup == StartupInit /\ [][StartupNext]_vars

----------------------------------------------------------------------------
(* RecordProcessor                                                         *)

\* The isinstance chain of lines 53-70, in its order: record kind and the
\* store whose insert is called.
Dispatch ==
    << <<"SoilMoistureRecord", "soil_moisture_store">>,
       <<"LightRecord", "light_store">>,
       <<"HumidityRecord", "humidity_store">>,
       <<"TemperatureRecord", "temperature_store">>,
       <<"WateringEventRecord", "watering_event_store">>,
       <<"SoilTemperatureRecord", "soil_temperature_store">>,
       <<"PumpStateRecord", "pump_state_store">>,
       <<"WindowStateRecord", "window_state_store">>,
       <<"MifloraBatteryRecord", "miflora_battery_store">> >>

KnownKinds == {Dispatch[i][1] : i \in 1 .. Len(Dispatch)}
Stores == {Dispatch[i][2] : i \in 1 .. Len(Dispatch)}

\* Kinds of objects put on the queue: the nine record kinds and one object of
\* another type.
RecordKinds == KnownKinds \cup {"OtherRecord"}

\* No branch of the chain matched.
NoStore == "none"

\* Records put on the queue, at most.
MaxRecords == 3

\* Lines 53-71: the first branch whose isinstance test holds, from branch i.
RECURSIVE StoreFrom(_, _)
StoreFrom(kind, i) ==
    IF i > Len(Dispatch)
       THEN NoStore
       ELSE IF Dispatch[i][1] = kind
               THEN Dispatch[i][2]
               ELSE StoreFrom(kind, i + 1)

\* The store the chain picks for light records, were its branch to call the
\* next branch's store.
StoreForWithLightMisrouted(kind) ==
    IF kind = "LightRecord" THEN "humidity_store" ELSE StoreFrom(kind, 1)
StoreFor(kind) == StoreFrom(kind, 1)

\* queue.Queue.put: a producer appends a record of kind k; records are told
\* apart by the number of the put.
Put(k) ==
    /\ Len(enqueue_log) < MaxRecords
    /\ LET r == <<k, Len(enqueue_log) + 1>>
       IN  /\ record_queue' = Append(record_queue, r)
           /\ enqueue_log' = Append(enqueue_log, r)
    /\ UNCHANGED <<insert_log, cpc, record, cret, queue_at_get, true_returns>>
    /\ UNCHANGED <<pumpVars, cacheVars, schedVars, mgrVars, startupVars,
                   loopVars>>

\* queue.Queue.get_nowait: never waits, and takes the oldest item.
GetWaitsForItem(q) == q # <<>>
GetReady(q) == TRUE
GetIndexNewest(q) == Len(q)
GetIndex(q) == 1

\* The queue without its i-th item.
Without(q, i) == [j \in 1 .. Len(q) - 1 |-> IF j < i THEN q[j] ELSE q[j + 1]]

\* Lines 48-51: the call starts with get_nowait; queue.Empty makes it return
\* False.
GetNowait ==
    /\ cpc = "idle"
    /\ GetReady(record_queue)
    /\ queue_at_get' = record_queue
    /\ IF record_queue = <<>>
          THEN /\ cret' = "False"
               /\ record' = NoRecord
               /\ UNCHANGED <<record_queue, cpc>>
          ELSE /\ record' = record_queue[GetIndex(record_queue)]
               /\ record_queue' = Without(record_queue, GetIndex(record_queue))
               /\ cpc' = "l53"
               /\ cret' = "running"
    /\ UNCHANGED <<enqueue_log, insert_log, true_returns>>
    /\ UNCHANGED <<pumpVars, cacheVars, schedVars, mgrVars, startupVars,
                   loopVars>>

\* Lines 53-74: the record goes to the store of its kind and the call returns
\* True, or UnsupportedRecordError is raised.
Route ==
    /\ cpc = "l53"
    /\ cpc' = "idle"
    /\ IF StoreFor(record[1]) = NoStore
          THEN /\ cret' = "UnsupportedRecordError"
               /\ UNCHANGED <<insert_log, true_returns>>
          ELSE /\ insert_log' =
                     Append(insert_log, <<StoreFor(record[1]), record>>)
               /\ cret' = "True"
               /\ true_returns' = true_returns + 1
    /\ UNCHANGED <<record_queue, enqueue_log, record, queue_at_get>>
    /\ UNCHANGED <<pumpVars, cacheVars, schedVars, mgrVars, startupVars,
                   loopVars>>

ProcessorInit ==
    /\ PumpInit
    /\ pump_exclusivity = [p \in Pumps |-> FALSE]
    /\ CacheInit
    /\ sleep_windows = <<>>
    /\ local_time = 0
    /\ allowed = "none"
    /\ ManagerAtRest
    /\ timer_remaining = 0
    /\ StartupAtRest
    /\ MainAtRest

ProcessorNext ==
    \/ \E k \in RecordKinds : Put(k)
    \/ GetNowait
    \/ Route

SpecProcessor == ProcessorInit /\ [][ProcessorNext]_vars

----------------------------------------------------------------------------
(* main, lines 371-382: the pollers, the processing loop, the cleanup       *)

\* Kinds of records the pollers put on the queue while main runs: two known
\* kinds and an object of another type.
LoopKinds == {"SoilMoistureRecord", "WateringEventRecord", "OtherRecord"}

\* Line 377: except KeyboardInterrupt
AbsorbsEveryError(exc) == TRUE
Absorbs(exc) == exc = "KeyboardInterrupt"

\* Lines 379-380: the finally block starts with the pollers.
FinallySkipsPollers == "l382"
FinallyStart == "l380"

\* Line 374: while True -- after a call has returned, whatever it returned,
\* the loop calls again; only an exception ends it.
LoopStopsWhenEmpty(ret) == ret \notin {"UnsupportedRecordError", "False"}
LoopContinues(ret) == ret # "UnsupportedRecordError"

\* Lines 372-373: the next poller is started; after the last one main enters
\* the while loop.
StartPolling ==
    /\ main_pc = "l372"
    /\ poller_state' = [poller_state EXCEPT ![poller_i] = "polling"]
    /\ IF poller_i = NumPollers
          THEN /\ main_pc' = "l375"
               /\ poller_i' = 1
          ELSE /\ poller_i' = poller_i + 1
               /\ UNCHANGED main_pc
    /\ UNCHANGED <<uart_open, main_exc, close_log>>
    /\ UNCHANGED <<pumpVars, cacheVars, schedVars, mgrVars, startupVars,
                   procVars>>

\* A poller that is polling puts a record on the queue.
PollerPut(k) ==
    /\ \E i \in Pollers : poller_state[i] = "polling"
    /\ Put(k)

\* Line 375: the loop calls try_process_next_record (after a False return it
\* has slept, line 376).
LoopGet ==
    /\ main_pc = "l375"
    /\ LoopContinues(cret)
    /\ GetNowait

LoopRoute ==
    /\ main_pc = "l375"
    /\ Route

\* An exception leaves the try body: line 377 absorbs it or it stays under
\* way, and the finally block runs.
LeaveTry(exc) ==
    /\ main_exc' = IF Absorbs(exc) THEN "none" ELSE exc
    /\ main_pc' = FinallyStart
    /\ poller_i' = 1
    /\ UNCHANGED <<poller_state, uart_open, close_log>>
    /\ UNCHANGED <<pumpVars, cacheVars, schedVars, mgrVars, startupVars>>

\* Line 375: try_process_next_record has raised.
LoopRaised ==
    /\ main_pc = "l375"
    /\ cpc = "idle"
    /\ cret = "UnsupportedRecordError"
    /\ LeaveTry(cret)
    /\ UNCHANGED procVars

\* KeyboardInterrupt reaches the main thread inside the try body; a call of
\* try_process_next_record under way is abandoned.
Interrupt ==
    /\ main_pc \in {"l372", "l375"}
    /\ cret # "UnsupportedRecordError"
    /\ LeaveTry("KeyboardInterrupt")
    /\ cpc' = "idle"
    /\ cret' = IF cpc = "l53" THEN "KeyboardInterrupt" ELSE cret
    /\ UNCHANGED <<record_queue, enqueue_log, insert_log, record,
                   queue_at_get, true_returns>>

\* Lines 380-381: close is called on the next poller.
ClosePoller ==
    /\ main_pc = "l380"
    /\ poller_state' = [poller_state EXCEPT ![poller_i] = "closed"]
    /\ close_log' = Append(close_log, <<"poller", poller_i>>)
    /\ IF poller_i = NumPollers
          THEN /\ main_pc' = "l382"
               /\ poller_i' = 1
          ELSE /\ poller_i' = poller_i + 1
               /\ UNCHANGED main_pc
    /\ UNCHANGED <<uart_open, main_exc>>
    /\ UNCHANGED <<pumpVars, cacheVars, schedVars, mgrVars, startupVars,
                   procVars>>

\* Line 382: arduino_uart.close(); main then ends, raising the exception
\* under way if there is one.
CloseUart ==
    /\ main_pc = "l382"
    /\ uart_open' = FALSE
    /\ close_log' = Append(close_log, <<"uart", 0>>)
    /\ main_pc' = "exited"
    /\ UNCHANGED <<poller_i, poller_state, main_exc>>
    /\ UNCHANGED <<pumpVars, cacheVars, schedVars, mgrVars, startupVars,
                   procVars>>

MainLoopNext ==
    \/ StartPolling
    \/ \E k \in LoopKinds : PollerPut(k)
    \/ LoopGet
    \/ LoopRoute
    \/ LoopRaised
    \/ Interrupt
    \/ ClosePoller
    \/ CloseUart

\* The main thread keeps running its loop and its cleanup.
MainLoopFairness ==
    /\ WF_vars(StartPolling)
    /\ WF_vars(LoopGet)
    /\ WF_vars(LoopRoute)
    /\ WF_vars(LoopRaised)
    /\ WF_vars(ClosePoller)
    /\ WF_vars(CloseUart)

SpecMainLoop == ProcessorInit /\ [][MainLoopNext]_vars /\ MainLoopFairness

\* No pump manager is at work.
ManagerIdle ==
    /\ sleep_windows = <<>>
    /\ local_time = 0
    /\ allowed = "none"
    /\ ManagerAtRest
    /\ timer_remaining = 0
    /\ StartupAtRest
    /\ MainAtRest

\* The pumps and their locks; the cache is not read.
Init == PumpInit /\ CacheInit /\ ManagerIdle

Next == PumpNext

Spec == Init /\ [][Next]_vars

\* One CachingArduinoSensors instance and its readers; no pump runs.
ArduinoInit ==
    /\ PumpInit
    /\ pump_exclusivity = [p \in Pumps |-> FALSE]
    /\ CacheInit
    /\ ManagerIdle

SpecArduino == ArduinoInit /\ [][ArduinoNext]_vars

\* One physical read at a time is what the cache allows (line 42), so the
\* polling loop is followed with one reader, on a clock that runs long enough
\* for a request to time out more than once.
MaxPollTime == 250
PollReader == 1

PollNext ==
    \/ ReadCall(PollReader)
    \/ EnterRead(PollReader, ARDUINO_FRESHNESS_THRESHOLD)
    \/ WriteRequestTag(PollReader)
    \/ SendRequest(PollReader)
    \/ PollTimeout(PollReader)
    \/ Respond(PollReader)
    \/ ExitWith(PollReader)
    \/ ReturnLastReading(PollReader)
    \/ TickTo(MaxPollTime)

\* The reader's thread keeps running, and the hardware eventually responds:
\* a poll of line 62 that can find a response again and again finds one.
PollFairness ==
    /\ WF_vars(WriteRequestTag(PollReader))
    /\ WF_vars(SendRequest(PollReader))
    /\ SF_vars(Respond(PollReader))

SpecArduinoPoll == ArduinoInit /\ [][PollNext]_vars /\ PollFairness

\* The pumps and one reader of the sensors use the same arduino_uart (main,
\* lines 327 and 346): the pump threads run together with one physical read
\* that the hardware answers before it times out.
ChannelNext ==
    \/ PumpNext
    \/ ReadCall(PollReader)
    \/ EnterRead(PollReader, ARDUINO_FRESHNESS_THRESHOLD)
    \/ WriteRequestTag(PollReader)
    \/ SendRequest(PollReader)
    \/ Respond(PollReader)
    \/ ExitWith(PollReader)
    \/ ReturnLastReading(PollReader)

SpecChannel == Init /\ [][ChannelNext]_vars

----------------------------------------------------------------------------
(* Properties of pump_water                                                *)

\* The call of pump p has sent its "on" command, has not sent its "off"
\* command, and has not ended.
InFlight(p) ==
    /\ pc[p] # "idle"
    /\ Len(sent[p]) > 0
    /\ sent[p][Len(sent[p])] # "off"

\* A call of pump p has ended (by a return or by an exception).
Ended(p) == pc[p] = "idle" /\ outcome[p] # "none"

\* C1: while an exclusive pump is between its "on" and its "off" command, no
\* other pump sharing the locks is between its own "on" and "off".
C1_ExclusiveExcludesAll ==
    \A p, q \in Pumps :
        (p # q /\ pump_exclusivity[p] /\ InFlight(p)) => ~InFlight(q)

C4_NeverBlocks ==
    \A p \in Pumps : pc[p] = "l55" => ~Locked(exclusive_pump_lock)

\* C5: a lock is held only by a pump whose call is inside the try block, so
\* when no call is in progress both locks are free.
C5_LocksReleasedOnExit ==
    /\ \A p \in Pumps :
          (exclusive_pump_lock = p \/ someone_pumping_lock = p)
              => pc[p] \in {"l59", "l66", "l67", "l69", "l73", "l74", "l75",
                            "finally"}
    /\ (\A p \in Pumps : pc[p] = "idle")
          => (exclusive_pump_lock = NoPump /\ someone_pumping_lock = NoPump)

\* No call is in progress, and the last calls ended by an interrupted wait of
\* an exclusive pump and by an error of a pump that held the other lock.
C5_Witness ==
    /\ \A p \in Pumps : pc[p] = "idle"
    /\ \E p \in Pumps : pump_exclusivity[p] /\ outcome[p] = "WaitError"
    /\ \E q \in Pumps :
          ~pump_exclusivity[q] /\ acquired_lock[q] /\ outcome[q] \in Raised

\* C6: a call with a negative amount ends with ValueError and sends nothing,
\* in every lock state.
C6_NegativeAlwaysValueError ==
    \A p \in Pumps :
        (Ended(p) /\ amount_ml[p] < 0)
            => (outcome[p] = "ValueError" /\ sent[p] = <<>>)

\* C7: a call with amount 0 sends nothing and returns True.
C7_ZeroReturnsTrue ==
    \A p \in Pumps :
        (Ended(p) /\ amount_ml[p] = 0)
            => (outcome[p] = "True" /\ sent[p] = <<>>)

\* C8: a call returns True only after it passed the gate and sent "on",
\* completed the wait and sent "off", in this order.
C8_TrueOnlyAfterActuation ==
    \A p \in Pumps :
        outcome[p] = "True" =>
            /\ sent[p] = <<"on", "wait", "off">>
            /\ ~gate_locked[p]
            /\ amount_ml[p] > 0

\* A call has returned True.
C8_Witness == \E p \in Pumps : Ended(p) /\ outcome[p] = "True"

----------------------------------------------------------------------------
(* Properties of the freshness cache                                       *)

\* A read of reader c has returned a value.
ReadReturned(c) == rpc[c] = "idle" /\ routcome[c] = "returned"

\* C9: a read that found the cache fresh (clock less than the threshold
\* after the last reading time) issues no physical read and returns the
\* bundle the cache held, which is the bundle the previous read returned.
C9_FreshReturnsCachedBundle ==
    \A c \in Readers :
        (ReadReturned(c) /\ branch[c] = "fresh")
            => /\ phys_reads[c] = 0
               /\ result[c] # NoBundle
               /\ result[c] = cached_at_check[c]

\* C10: a read that found the cache stale (clock at least the threshold after
\* the last reading time) performs exactly one physical read and returns the
\* bundle that this physical read produced.
C10_StaleReturnsOwnPhysicalRead ==
    \A c \in Readers :
        (ReadReturned(c) /\ branch[c] = "stale")
            => /\ phys_reads[c] = 1
               /\ result[c] = phys_result[c]

\* The bundle b was produced by a physical read of a call whose clock reading
\* was t.
ProducedAt(b, t) == b # NoBundle /\ bundle_time[b] = t

\* C11: a returned value is a bundle, and the physical read that produced it
\* belongs to a call whose clock reading is no more than the freshness
\* threshold before the returning call's clock reading.
C11_ReturnedBundleWithinThreshold ==
    \A c \in Readers :
        ReadReturned(c) =>
            /\ result[c] # NoBundle
            /\ call_now[c] - bundle_time[result[c]]
                  <= ARDUINO_FRESHNESS_THRESHOLD

\* Reader c is inside _get_current_values.
InPhysicalRead(c) == rpc[c] \in {"l59", "l60", "l62", "l68", "l69"}

\* C12: at most one physical read is in flight, and the reader performing it
\* holds the cache's lock (every other caller waits at line 42).
C12_OnePhysicalReadInFlight ==
    /\ \A c, d \in Readers :
          (c # d) => ~(InPhysicalRead(c) /\ InPhysicalRead(d))
    /\ \A c \in Readers : InPhysicalRead(c) => cache_lock = c

\* A caller has arrived while another reader polls for the response.
C12_Witness ==
    \E c, d \in Readers :
        c # d /\ rpc[c] = "l62" /\ cache_lock = c /\ rpc[d] = "l42"

\* C13: whenever no reader is inside the lock (the states another caller can
\* observe, and the states after a read has ended), the stored reading time is
\* the clock reading of the call whose physical read produced the stored
\* bundle.
C13_TimeAndBundleTogether ==
    cache_lock = NoReader =>
        \/ last_reading = NoBundle /\ last_reading_time = DATETIME_MIN
        \/ ProducedAt(last_reading, last_reading_time)

\* The request that reader c sent last.
MostRecentRequest(c) == requests[c][Len(requests[c])]

\* C14: in the polling loop the request is sent again only when the request
\* timeout has elapsed since the most recent request, a timeout does not end
\* the call (the reader goes on to send and poll, nothing is raised), a
\* response ends the loop with the decoded bundle, and a read that is polling
\* eventually ends when the hardware eventually responds.
C14_TimeoutRetriesUntilResponse ==
    /\ [][\A c \in Readers :
            (rpc[c] = "l62" /\ rpc'[c] # "l62") =>
                \/ /\ rpc'[c] = "l68"
                   /\ now - MostRecentRequest(c) >= REQUEST_TIMEOUT
                   /\ routcome'[c] = "running"
                \/ /\ rpc'[c] = "exit"
                   /\ \/ routcome'[c] = "raised"
                      \/ /\ phys_result'[c] = bundles + 1
                         /\ last_reading' = phys_result'[c]]_vars
    /\ (rpc[PollReader] = "l62") ~> ~InPhysicalRead(PollReader)

\* The reader polls after two requests have timed out.
C14_Witness ==
    /\ rpc[PollReader] = "l62"
    /\ Len(requests[PollReader]) = 3
    /\ request_time[PollReader] = MostRecentRequest(PollReader)

----------------------------------------------------------------------------
(* Properties of PumpScheduler                                             *)

\* The scheduler has the single sleep window <<sleep_time, wake_time>> and
\* is_running_pump_allowed has returned at the present local time.
AnsweredForWindow(sleep_time, wake_time) ==
    /\ sleep_windows = << <<sleep_time, wake_time>> >>
    /\ allowed # "none"

\* C15: with a single sleep window that does not wrap (start <= end),
\* is_running_pump_allowed returns False exactly when
\* start <= current time < end, and True at every other time; for
\* (03:15, 03:45) it is False at 03:15 and 03:44:59, True at 03:45:00 and
\* 03:14:59.
C15_NonWrappingWindow ==
    /\ \A start, end \in WindowTimes :
          (start <= end /\ AnsweredForWindow(start, end)) =>
              (allowed = "False"
                  <=> (start <= local_time /\ local_time < end))
    /\ AnsweredForWindow(11700, 13500) =>
          /\ local_time \in {11700, 13499} => allowed = "False"
          /\ local_time \in {13500, 11699} => allowed = "True"

\* The window (03:15, 03:45) has been asked about at 03:45:00.
C15_Witness ==
    /\ AnsweredForWindow(11700, 13500)
    /\ local_time = 13500
    /\ allowed = "True"

\* C16: with a single sleep window that wraps midnight (end < start),
\* is_running_pump_allowed returns False exactly when current >= start or
\* current < end, and True at every other time; for (23:30, 00:30) it is
\* False at 23:45 and 00:15, True at 12:00.
C16_WrappingWindow ==
    /\ \A start, end \in WindowTimes :
          (end < start /\ AnsweredForWindow(start, end)) =>
              (allowed = "False"
                  <=> (local_time >= start \/ local_time < end))
    /\ AnsweredForWindow(84600, 1800) =>
          /\ local_time \in {85500, 900} => allowed = "False"
          /\ local_time = 43200 => allowed = "True"

\* The window (23:30, 00:30) has been asked about at 00:15.
C16_Witness ==
    /\ AnsweredForWindow(84600, 1800)
    /\ local_time = 900
    /\ allowed = "False"

----------------------------------------------------------------------------
(* Properties of PumpManager                                               *)

\* The manager's pump_if_needed call has ended.
ManagerEnded == mpc = "idle" /\ moutcome \in {"returned", "raised"}

\* The call made pump_water run, and pump_water returned True.
PumpedSuccessfully == pump_calls = 1 /\ outcome[ManagedPump] = "True"

\* C17: pump_if_needed calls pump_water exactly once if the scheduler allows
\* pumping and (moisture < threshold or the Timer has expired), and not at all
\* otherwise: in a sleep window nothing is pumped and 0 is returned, and
\* moisture equal to the threshold with an unexpired Timer does not pump.
C17_PumpsExactlyWhenNeeded ==
    /\ pump_calls <= 1
    /\ ManagerEnded =>
          /\ pump_calls = 1
                <=> /\ AllowedFrom(sleep_windows, 1, time_at_call)
                    /\ \/ moisture < MoistureThreshold
                       \/ timer_at_call = 0
          /\ ~AllowedFrom(sleep_windows, 1, time_at_call) =>
                (pump_calls = 0 /\ moutcome = "returned" /\ mret = 0)
          /\ (moisture = MoistureThreshold /\ timer_at_call > 0) =>
                pump_calls = 0

\* A call with the moisture at the threshold has pumped because the Timer had
\* expired.
C17_Witness ==
    /\ ManagerEnded
    /\ pump_calls = 1
    /\ moisture = MoistureThreshold
    /\ timer_at_call = 0

\* C18: the Timer is reset if and only if pump_water returned True; on a
\* skip, in a sleep window and when pumping was not needed it is not reset,
\* and a Timer that had expired is still expired after the call.
C18_TimerResetOnlyOnSuccess ==
    /\ timer_resets <= 1
    /\ ManagerEnded =>
          /\ timer_resets = 1 <=> PumpedSuccessfully
          /\ (~PumpedSuccessfully /\ timer_at_call = 0) =>
                timer_remaining = 0

\* pump_water was skipped for a call whose Timer had expired.
C18_Witness ==
    /\ ManagerEnded
    /\ pump_calls = 1
    /\ outcome[ManagedPump] = "False"
    /\ timer_at_call = 0
    /\ timer_resets = 0
    /\ timer_remaining = 0

\* C19: pump_if_needed returns the pump amount only when pump_water returned
\* True, and 0 in every other case, a skipped pump_water included.
C19_ReturnsVolumePumped ==
    (ManagerEnded /\ moutcome = "returned") =>
        mret = IF PumpedSuccessfully THEN PumpAmount ELSE 0

----------------------------------------------------------------------------
(* Properties of the startup                                               *)

\* main has called make_pump_manager for pump p, and the call has ended.
ManagerMadeFor(p) ==
    \/ p < startup_pc
    \/ p = startup_pc /\ startup_outcome # "running"

\* The timestamp of the most recent persisted watering event of pump p, or
\* None.
LastEventOf(p) ==
    LET times == {e[2] : e \in {h \in watering_history : h[1] = p}}
    IN  IF times = {} THEN None
        ELSE CHOOSE t \in times : \A u \in times : u <= t

\* C20: at startup the Timer of pump p is seeded with
\* max(0, T + interval - now), T being the time of the most recent persisted
\* watering event of pump p itself, and with 0 when pump p has no event.
C20_TimerSeededFromOwnHistory ==
    \A p \in Pumps :
        ManagerMadeFor(p) =>
            seeded_remaining[p] =
                IF LastEventOf(p) = None
                   THEN 0
                   ELSE Max(0, LastEventOf(p) + PumpInterval - startup_now)

----------------------------------------------------------------------------
(* Properties of RecordProcessor                                           *)

\* The items of a sequence.
Items(q) == {q[i] : i \in 1 .. Len(q)}

\* The records taken off the queue so far.
Dequeued == Items(enqueue_log) \ Items(record_queue)

\* No call of try_process_next_record is under way.
ProcessorIdle == cpc = "idle"

\* C21: try_process_next_record never blocks; on an empty queue it returns
\* False and inserts nothing, and it returns False only then; the calls that
\* returned True are as many as the records of known kinds taken off the
\* queue, never more than the records enqueued, so after one enqueue one call
\* returns True and the next ones False.
C21_NeverBlocksFalseWhenEmpty ==
    /\ ProcessorIdle => ENABLED GetNowait
    /\ (ProcessorIdle /\ cret = "False") =>
          (queue_at_get = <<>> /\ record = NoRecord)
    /\ (ProcessorIdle /\ cret \in {"True", "UnsupportedRecordError"}) =>
          queue_at_get # <<>>
    /\ true_returns = Len(insert_log)
    /\ true_returns <= Len(enqueue_log)
    /\ ProcessorIdle =>
          true_returns = Cardinality({r \in Dequeued : r[1] \in KnownKinds})

\* One record was enqueued, one call has returned True, and a later call has
\* returned False.
C21_Witness ==
    /\ ProcessorIdle
    /\ Len(enqueue_log) = 1
    /\ true_returns = 1
    /\ cret = "False"

\* The store that matches a record kind.
MatchingStore(kind) ==
    CASE kind = "SoilMoistureRecord" -> "soil_moisture_store"
      [] kind = "LightRecord" -> "light_store"
      [] kind = "HumidityRecord" -> "humidity_store"
      [] kind = "TemperatureRecord" -> "temperature_store"
      [] kind = "WateringEventRecord" -> "watering_event_store"
      [] kind = "SoilTemperatureRecord" -> "soil_temperature_store"
      [] kind = "PumpStateRecord" -> "pump_state_store"
      [] kind = "WindowStateRecord" -> "window_state_store"
      [] kind = "MifloraBatteryRecord" -> "miflora_battery_store"
      [] OTHER -> "no_store"

\* The inserts made with record r.
InsertsOf(r) == {i \in 1 .. Len(insert_log) : insert_log[i][2] = r}

\* C22: a call that has taken a record of a known kind has called insert
\* exactly once, on the store matching the kind, with that record, has touched
\* no other store, and has returned True.
C22_RoutedToMatchingStore ==
    (ProcessorIdle /\ record # NoRecord
        /\ MatchingStore(record[1]) # "no_store") =>
        /\ cret = "True"
        /\ insert_log[Len(insert_log)] = <<MatchingStore(record[1]), record>>
        /\ Cardinality(InsertsOf(record)) = 1
        /\ Len(insert_log) =
              Cardinality({r \in Dequeued : r[1] \in KnownKinds})

\* A record of the last kind of the chain has been processed after a record
\* of another kind.
C22_Witness ==
    /\ ProcessorIdle
    /\ cret = "True"
    /\ record # NoRecord
    /\ record[1] = "MifloraBatteryRecord"
    /\ Len(insert_log) = 2

\* Sequence a is the start of sequence b.
IsPrefix(a, b) ==
    /\ Len(a) <= Len(b)
    /\ \A i \in 1 .. Len(a) : a[i] = b[i]

\* C30: a call made on a non-empty queue removes exactly one record, the
\* oldest, also when it raises UnsupportedRecordError: the record is no longer
\* in the queue, after the error it is in no store, and the records behind it
\* are still in the queue in the same order (followed by those put later).
C30_OneRecordRemovedPerCall ==
    (ProcessorIdle /\ queue_at_get # <<>>) =>
        /\ record = Head(queue_at_get)
        /\ record \notin Items(record_queue)
        /\ IsPrefix(Tail(queue_at_get), record_queue)
        /\ cret = "UnsupportedRecordError" => InsertsOf(record) = {}

\* A call has raised on a record that had another record behind it.
C30_Witness ==
    /\ ProcessorIdle
    /\ cret = "UnsupportedRecordError"
    /\ Len(queue_at_get) >= 2
    /\ record_queue # <<>>

----------------------------------------------------------------------------
(* Properties of main's processing loop and cleanup                         *)

\* The main thread has left the while loop.
LoopEnded == main_pc \in {"l380", "l382", "exited"}

\* C23: a call that has taken a record of no known kind has raised
\* UnsupportedRecordError and inserted the record into no store; the error
\* ends the processing loop: main does not absorb it, and no record is taken
\* off the queue or inserted after the one that raised.
C23_UnsupportedRecordIsFatal ==
    /\ (ProcessorIdle /\ record # NoRecord /\ record[1] \notin KnownKinds
           /\ cret # "KeyboardInterrupt") =>
          (cret = "UnsupportedRecordError" /\ InsertsOf(record) = {})
    /\ cret = "UnsupportedRecordError" =>
          /\ \A r \in Dequeued : r[2] <= record[2]
          /\ \A i \in 1 .. Len(insert_log) : insert_log[i][2][2] < record[2]
          /\ main_pc # "l375" => (LoopEnded /\ main_exc = cret)
    /\ main_exc = "UnsupportedRecordError" => cret = main_exc

\* main has ended with UnsupportedRecordError after an insert, with a record
\* left on the queue.
C23_Witness ==
    /\ main_pc = "exited"
    /\ main_exc = "UnsupportedRecordError"
    /\ insert_log # <<>>
    /\ record_queue # <<>>

\* The records that can be on the queue.
Records == RecordKinds \X (1 .. MaxRecords)

\* Record r has been put on the queue.
Enqueued(r) == r \in Items(enqueue_log)

\* Record r has been inserted into a store.
Inserted(r) == InsertsOf(r) # {}

\* The inserts were made in the order in which their records were enqueued,
\* each record at most once.
InsertedInEnqueueOrder ==
    \A i, j \in 1 .. Len(insert_log) :
        i < j => insert_log[i][2][2] < insert_log[j][2][2]

\* The call that had taken record r was abandoned on KeyboardInterrupt.
Abandoned(r) == cret = "KeyboardInterrupt" /\ record = r

FullCleanup == [n \in 1 .. NumPollers + 1 |->
                  IF n <= NumPollers THEN <<"poller", n>> ELSE <<"uart", 0>>]

----------------------------------------------------------------------------
(* Properties of the commands on the hardware channel                      *)

\* The step is a hardware effect of pump p's call: its "on" send, its wait or
\* its "off" send has just been done.
Effect(p, e) ==
    /\ Len(sent'[p]) = Len(sent[p]) + 1
    /\ sent'[p][Len(sent'[p])] = e

\* What send(2) transmits when it runs is the tag and the id of pump p.
TransmitsCommandOf(p, tag) == txBuff[0] = tag /\ txBuff[1] = p

\* C26: the hardware effects of a call with a positive amount come in one
\* order: an "on" command carrying the pump's id first, then the wait, then an
\* "off" command carrying the same id; the wait never comes before the "on",
\* and no "off" without the "on" and the wait of the same call.
C26_OnWaitOffWithOwnId ==
    [][\A p \in Pumps :
          /\ Effect(p, "on") =>
                (sent[p] = <<>> /\ amount_ml[p] > 0
                    /\ TransmitsCommandOf(p, TAG_ON))
          /\ Effect(p, "wait") => sent[p] = <<"on">>
          /\ Effect(p, "off") =>
                (sent[p] = <<"on", "wait">>
                    /\ TransmitsCommandOf(p, TAG_OFF))]_vars

----------------------------------------------------------------------------
(* Properties of PumpScheduler with several sleep windows                  *)

\* The time of day t lies in the sleep window w, which wraps midnight when
\* its end is before its start.
Matches(w, t) ==
    IF w[2] < w[1] THEN t >= w[1] \/ t < w[2]
                   ELSE w[1] <= t /\ t < w[2]

\* The sleep windows that match the current time.
MatchingWindows ==
    {i \in 1 .. Len(sleep_windows) : Matches(sleep_windows[i], local_time)}

\* C27: with any list of sleep windows, wrapping or not,
\* is_running_pump_allowed returns False exactly when some window matches the
\* current time, so True for an empty list; a call changes neither the
\* windows nor the clock, and a call repeated at the same time returns what
\* the call before returned.
C27_DisallowedIffSomeWindowMatches ==
    /\ [](allowed # "none" =>
            (allowed = "False" <=> MatchingWindows # {}))
    /\ []((allowed # "none" /\ sleep_windows = <<>>) => allowed = "True")
    /\ [][allowed' # "none" =>
            /\ sleep_windows' = sleep_windows
            /\ local_time' = local_time
            /\ allowed # "none" => allowed' = allowed]_vars

\* Two windows, one wrapping midnight and one not; only the second one
\* matches the current time, and the call has returned False.
C27_Witness ==
    /\ Len(sleep_windows) = 2
    /\ \E i, j \in 1 .. 2 :
          /\ sleep_windows[i][2] < sleep_windows[i][1]
          /\ sleep_windows[j][1] < sleep_windows[j][2]
    /\ MatchingWindows = {2}
    /\ allowed = "False"

----------------------------------------------------------------------------
(* Properties of the pump being switched off                               *)

\* The call of pump p has ended, by a return or by an exception.
CallEnded(p) == pc[p] = "idle" /\ outcome[p] \in Returned \cup Raised

\* C28: a call that has sent its "on" command has sent its "off" command by
\* the time it ends, on every exit path, also when the wait or the
\* computation of the wait time raised after the "on" command.
C28_OffBeforeCallEnds ==
    \A p \in Pumps :
        (CallEnded(p) /\ Len(sent[p]) > 0 /\ sent[p][1] = "on") =>
            sent[p][Len(sent[p])] = "off"

\* The step is a send(1) of the sensors' request by reader c.
RequestSent(c) == Len(requests'[c]) = Len(requests[c]) + 1

\* C29: every command a pump's "on" or "off" step transmits is the tag and
\* the pump id that this step wrote, and every request the sensor reader
\* transmits is the tag it wrote, whatever the other pump_water calls and the
\* sensor read on the same arduino_uart do in between: no one's txBuff bytes
\* are overwritten between being written and being sent.
C29_CommandBytesAreTheWritersOwn ==
    [][/\ \A p \in Pumps :
             /\ Effect(p, "on") => TransmitsCommandOf(p, TAG_ON)
             /\ Effect(p, "off") => TransmitsCommandOf(p, TAG_OFF)
       /\ RequestSent(PollReader) => txBuff[0] = TAG_SENSORS]_vars

====
